---- MODULE Spec2Model ----
(***************************************************************************)
(* A model of the Rust v0 symbol parser of ast-demangle                    *)
(* (src/rust_v0/parsers/mod.rs).                                           *)
(*                                                                         *)
(* The parser is a pure function of its input string that threads one      *)
(* mutable Context (three memo tables keyed by byte offset) through every  *)
(* production.  Each production is an operator taking (input, context)     *)
(* and returning a result record                                           *)
(*     [ok |-> TRUE,  out |-> value, rest |-> cursor, ctx |-> context]     *)
(*     [ok |-> FALSE, ctx |-> context]                                     *)
(* The context of a failed branch is returned too: the tables are behind   *)
(* a `&mut` and insertions made by a branch that later fails stay.         *)
(*                                                                         *)
(* Strings are sequences of one-character strings.  Only ASCII input is    *)
(* modelled, so a byte offset and a character offset coincide.  The        *)
(* character `u` is outside every input alphabet: after `u` an identifier  *)
(* is decoded by the external punycode crate, which is not part of the     *)
(* repository.                                                             *)
(*                                                                         *)
(* Ghost fields of the context (not in the Rust struct): next_id numbers   *)
(* the Rc allocations so that object identity is the equality of ids;      *)
(* active is the set of productions that are running; log records, in      *)
(* order, what the productions did.                                        *)
(***************************************************************************)
EXTENDS Integers, Sequences, FiniteSets, TLC

VARIABLES mangled, pc, result, final

vars == <<mangled, pc, result, final>>

(***************************************************************************)
(* Characters                                                              *)
(***************************************************************************)
DecDigits == <<"0", "1", "2", "3", "4", "5", "6", "7", "8", "9">>

LowerLetters == <<"a", "b", "c", "d", "e", "f", "g", "h", "i", "j", "k", "l", "m",
                  "n", "o", "p", "q", "r", "s", "t", "u", "v", "w", "x", "y", "z">>

UpperLetters == <<"A", "B", "C", "D", "E", "F", "G", "H", "I", "J", "K", "L", "M",
                  "N", "O", "P", "Q", "R", "S", "T", "U", "V", "W", "X", "Y", "Z">>

Range(s) == {s[i] : i \in 1..Len(s)}

IndexOf(s, c) == CHOOSE i \in 1..Len(s) : s[i] = c

AsciiDigits == Range(DecDigits)

AsciiLowerHexDigits == Range(DecDigits) \cup {"a", "b", "c", "d", "e", "f"}

AsciiAlphanumerics == Range(DecDigits) \cup Range(LowerLetters) \cup Range(UpperLetters)

is_ascii_digit(c) == c \in AsciiDigits

is_ascii_lower_hex_digit(c) == c \in AsciiLowerHexDigits

is_ascii_alphanumeric(c) == c \in AsciiAlphanumerics

(***************************************************************************)
(* Unsigned integers wider than TLC's: little-endian limbs of 16 bits.     *)
(* u64 is four limbs; const integers are computed in eight (128 bits) and  *)
(* then checked against the width of their type.                           *)
(***************************************************************************)
LimbBase == 2 ^ 16

Zero(n) == [i \in 1..n |-> 0]

\* limbs * m + a, with the carry out of the top limb
RECURSIVE MulAddFrom(_, _, _, _)
MulAddFrom(limbs, m, carry, i) ==
    IF i > Len(limbs) THEN [limbs |-> limbs, carry |-> carry]
    ELSE LET t == limbs[i] * m + carry
         IN  MulAddFrom([limbs EXCEPT ![i] = t % LimbBase], m, t \div LimbBase, i + 1)

MulAdd(limbs, m, a) == MulAddFrom(limbs, m, a, 1)

FromInt(n, k) == MulAdd(Zero(k), 1, n).limbs

IsSmall(limbs) ==
    /\ \A i \in 3..Len(limbs) : limbs[i] = 0
    /\ limbs[2] < 16384

ToInt(limbs) == limbs[1] + LimbBase * limbs[2]

\* u64::checked_add(1): <<>> stands for None
checked_add_1(limbs) ==
    LET r == MulAdd(limbs, 1, 1) IN IF r.carry = 0 THEN r.limbs ELSE <<>>

\* value < 2^bits
FitsBits(limbs, bits) ==
    LET j == (bits \div 16) + 1
    IN  /\ \A i \in (j + 1)..Len(limbs) : limbs[i] = 0
        /\ j <= Len(limbs) => limbs[j] < 2 ^ (bits % 16)

\* b'0'..=b'9' => c - b'0', b'a'..=b'z' => 10 + (c - b'a'), _ => 36 + (c - b'A')
DigitValues ==
    [c \in AsciiAlphanumerics |->
        IF c \in Range(DecDigits) THEN IndexOf(DecDigits, c) - 1
        ELSE IF c \in Range(LowerLetters) THEN 10 + (IndexOf(LowerLetters, c) - 1)
        ELSE 36 + (IndexOf(UpperLetters, c) - 1)]

DigitValue(c) == DigitValues[c]

\* T::from_str_radix(num, radix) for an unsigned-magnitude digit string: the value
\* in `limbs` limbs, or <<>> (an Err) when the string is empty or the value needs
\* more than `bits` bits.
RECURSIVE FromStrRadixFrom(_, _, _, _)
FromStrRadixFrom(num, radix, acc, i) ==
    IF i > Len(num) THEN acc
    ELSE LET r == MulAdd(acc, radix, DigitValue(num[i]))
         IN  IF r.carry # 0 THEN <<>> ELSE FromStrRadixFrom(num, radix, r.limbs, i + 1)

from_str_radix(num, radix, limbs, bits) ==
    IF Len(num) = 0 THEN <<>>
    ELSE LET v == FromStrRadixFrom(num, radix, Zero(limbs), 1)
         IN  IF v # <<>> /\ FitsBits(v, bits) THEN v ELSE <<>>

(***************************************************************************)
(* Results, options and the input cursor                                   *)
(***************************************************************************)
Ok(out, rest, ctx) == [ok |-> TRUE, out |-> out, rest |-> rest, ctx |-> ctx]

Fail(ctx) == [ok |-> FALSE, ctx |-> ctx]

None == <<>>

Some(x) == <<x>>

Emit(ctx, event) == [ctx EXCEPT !.log = Append(@, event)]

IndexedStr_new(data) == [index |-> 0, data |-> data]

\* <<>> for None, else <<left, cursor>>
IndexedStr_split_at(self, index) ==
    IF index > Len(self.data) THEN None
    ELSE LET left == SubSeq(self.data, 1, index)
             right == SubSeq(self.data, index + 1, Len(self.data))
         IN  Some([left |-> left,
                   rest |-> [index |-> self.index + Len(left), data |-> right]])

\* a strip_prefix that returns the rest without advancing the index
IndexedStr_strip_prefix_stale(self, prefix) ==
    IF Len(prefix) <= Len(self.data) /\ SubSeq(self.data, 1, Len(prefix)) = prefix
    THEN Some([left |-> prefix,
               rest |-> [index |-> self.index,
                         data |-> SubSeq(self.data, Len(prefix) + 1, Len(self.data))]])
    ELSE None

IndexedStr_strip_prefix(self, prefix) ==
    IF Len(prefix) <= Len(self.data) /\ SubSeq(self.data, 1, Len(prefix)) = prefix
    THEN LET left == prefix
             right == SubSeq(self.data, Len(prefix) + 1, Len(self.data))
         IN  Some([left |-> left,
                   rest |-> [index |-> self.index + Len(left), data |-> right]])
    ELSE None

\* the index of the first character for which pattern holds, or the length
IndexedStr_find(self, pattern(_)) ==
    LET found == {i \in 1..Len(self.data) : pattern(self.data[i])}
    IN  IF found = {} THEN Len(self.data)
        ELSE (CHOOSE i \in found : \A j \in found : i <= j) - 1

(***************************************************************************)
(* The parser toolkit (mini_parser).  A combinator takes the result of     *)
(* the parser before it and the name of the parser after it, so that       *)
(* `a.and(b)` reads And(a(input, context), "b"); Call runs a parser by     *)
(* its name.                                                               *)
(***************************************************************************)
RECURSIVE Call(_, _, _), many0(_, _, _)

tag(lit, i, c) ==
    LET s == IndexedStr_strip_prefix(i, lit)
    IN  IF s = None THEN Fail(c) ELSE Ok(s[1].left, s[1].rest, c)

take(n, i, c) ==
    LET s == IndexedStr_split_at(i, n)
    IN  IF s = None THEN Fail(c) ELSE Ok(s[1].left, s[1].rest, c)

take_while(pred(_), i, c) ==
    LET NotPred(ch) == ~pred(ch)
    IN  take(IndexedStr_find(i, NotPred), i, c)

alphanumeric0(i, c) == take_while(is_ascii_alphanumeric, i, c)

lower_hex_digit0(i, c) == take_while(is_ascii_lower_hex_digit, i, c)

digit1(i, c) ==
    LET r == take_while(is_ascii_digit, i, c)
    IN  IF r.ok /\ Len(r.out) > 0 THEN r ELSE Fail(c)

\* p.or(q): q runs on the same input, with the context p left
Or(r, q, i) == IF r.ok THEN r ELSE Call(q, i, r.ctx)

\* p.and(q)
And(r, q) ==
    IF ~r.ok THEN r
    ELSE LET s == Call(q, r.rest, r.ctx)
         IN  IF s.ok THEN Ok(<<r.out, s.out>>, s.rest, s.ctx) ELSE s

\* preceded(p, q)
Preceded(r, q) == IF r.ok THEN Call(q, r.rest, r.ctx) ELSE r

\* terminated(p, tag(lit))
TerminatedTag(r, lit) ==
    IF ~r.ok THEN r
    ELSE LET t == tag(lit, r.rest, r.ctx)
         IN  IF t.ok THEN Ok(r.out, t.rest, t.ctx) ELSE t

\* opt(p), p having run on i
Opt(r, i) == IF r.ok THEN Ok(Some(r.out), r.rest, r.ctx) ELSE Ok(None, i, r.ctx)

\* p.map(f)
Map(r, F(_)) == IF r.ok THEN Ok(F(r.out), r.rest, r.ctx) ELSE r

\* map_opt(p, f): f answers <<>> for None and <<x>> for Some(x)
MapOpt(r, F(_)) ==
    IF ~r.ok THEN r
    ELSE LET o == F(r.out)
         IN  IF o = None THEN Fail(r.ctx) ELSE Ok(o[1], r.rest, r.ctx)

\* Rc::new on the output: the allocation gets the next identity
RcNew(r) ==
    IF ~r.ok THEN r
    ELSE Ok([id |-> r.ctx.next_id, node |-> r.out], r.rest,
            [r.ctx EXCEPT !.next_id = @ + 1])

(***************************************************************************)
(* Numbers                                                                 *)
(***************************************************************************)
decimal_from_str(num) ==
    LET v == from_str_radix(num, 10, 4, 64) IN IF v = <<>> THEN None ELSE Some(v)

\* digit1 tried before the literal "0": a leading zero is read into the run
parse_decimal_number_greedy(input, context) ==
    LET run == digit1(input, context)
        r == MapOpt(IF run.ok THEN run ELSE tag(<<"0">>, input, run.ctx), decimal_from_str)
    IN  IF r.ok
        THEN [r EXCEPT !.ctx = Emit(@, [ev |-> "dec", at |-> input.index,
                                        end |-> r.rest.index, value |-> r.out])]
        ELSE r

parse_decimal_number(input, context) ==
    LET r == MapOpt(Or(tag(<<"0">>, input, context), "digit1", input), decimal_from_str)
    IN  IF r.ok
        THEN [r EXCEPT !.ctx = Emit(@, [ev |-> "dec", at |-> input.index,
                                        end |-> r.rest.index, value |-> r.out])]
        ELSE r

\* a base-62 number without the bump of a non-empty digit run
base62_value_unbumped(num) ==
    IF Len(num) = 0 THEN Some(Zero(4))
    ELSE LET value == FromStrRadixFrom(num, 62, Zero(4), 1)
         IN  IF value = <<>> THEN None ELSE Some(value)

base62_value(num) ==
    IF Len(num) = 0 THEN Some(Zero(4))
    ELSE LET value == FromStrRadixFrom(num, 62, Zero(4), 1)
         IN  IF value = <<>> THEN None
             ELSE LET v == checked_add_1(value) IN IF v = <<>> THEN None ELSE Some(v)

parse_base62_number(input, context) ==
    MapOpt(TerminatedTag(alphanumeric0(input, context), <<"_">>), base62_value)

\* u64 -> usize: the 64-bit target, where every u64 converts
usize_try_from(num) == Some(num)

parse_back_ref(input, context) ==
    MapOpt(Preceded(tag(<<"B">>, input, context), "parse_base62_number"), usize_try_from)

parse_disambiguator(input, context) ==
    Preceded(tag(<<"s">>, input, context), "parse_base62_number")

parse_lifetime(input, context) ==
    Preceded(tag(<<"L">>, input, context), "parse_base62_number")

parse_binder(input, context) ==
    Preceded(tag(<<"G">>, input, context), "parse_base62_number")

\* an opt_u64 without the bump: the value of the parser as it is
opt_u64_plain(r, input) ==
    LET o == Opt(r, input)
        stored == IF o.out = None THEN Zero(4) ELSE o.out[1]
    IN  Ok(stored, o.rest,
           Emit(o.ctx, [ev |-> "opt_u64", at |-> input.index, num |-> o.out,
                        stored |-> stored]))

\* opt_u64(parser), parser having run on input and returned r
opt_u64(r, input) ==
    LET o == Opt(r, input)
        stored == IF o.out = None THEN Zero(4) ELSE checked_add_1(o.out[1])
        ctx == Emit(o.ctx, [ev |-> "opt_u64", at |-> input.index, num |-> o.out,
                            stored |-> stored])
    IN  IF stored = <<>> THEN Fail(ctx) ELSE Ok(stored, o.rest, ctx)

(***************************************************************************)
(* The memo tables of Context, and the ghost record of who is running      *)
(***************************************************************************)
Context_default ==
    [paths |-> <<>>, types |-> <<>>, consts |-> <<>>,
     next_id |-> 1, active |-> {}, log |-> <<>>]

HashMap_insert(map, key, value) ==
    [k \in DOMAIN map \cup {key} |-> IF k = key THEN value ELSE map[k]]

HashMap_get(map, key) ==
    IF IsSmall(key) /\ ToInt(key) \in DOMAIN map THEN Some(map[ToInt(key)]) ELSE None

Enter(ctx, cat, index) == [ctx EXCEPT !.active = @ \cup {<<cat, index>>}]

\* the production entered at index is over; its failure is recorded in the log
Leave(r, cat, index) ==
    [r EXCEPT !.ctx = [(IF r.ok THEN @
                        ELSE Emit(@, [ev |-> "fail", cat |-> cat, at |-> index]))
                       EXCEPT !.active = @ \ {<<cat, index>>}]]

KeyOf(back_ref) == IF IsSmall(back_ref) THEN ToInt(back_ref) ELSE -1

\* the outcome of a table lookup as a parser result, recorded in the log
Resolve(b, cat, i, got) ==
    LET ctx == Emit(b.ctx, [ev |-> "ref", cat |-> cat, at |-> i.index,
                            k |-> KeyOf(b.out), hit |-> got # None,
                            id |-> IF got = None THEN 0 ELSE got[1].id,
                            active |-> b.ctx.active])
    IN  IF got = None THEN Fail(ctx) ELSE Ok(got[1], b.rest, ctx)

TableOf(ctx, cat) ==
    IF cat = "path" THEN ctx.paths ELSE IF cat = "type" THEN ctx.types ELSE ctx.consts

\* the return of a production, recorded in the log with the entry the table holds
\* for its offset at that moment
Returned(r, cat, index, ctx) ==
    Emit(ctx, [ev |-> "ret", cat |-> cat, at |-> index, end |-> r.rest.index,
               id |-> r.out.id, active |-> ctx.active \ {<<cat, index>>},
               wraps |-> IF cat = "type" /\ r.out.node.tag = "Named"
                         THEN r.out.node.path.id
                         ELSE 0,
               stored |-> IF index \in DOMAIN TableOf(ctx, cat)
                          THEN TableOf(ctx, cat)[index].id
                          ELSE 0])

\* a lookup that hands out a copy of the node (a deep clone) instead of the shared one
paths_get_copy(context, back_ref) ==
    IF HashMap_get(context.paths, back_ref) = None THEN None
    ELSE Some([HashMap_get(context.paths, back_ref)[1] EXCEPT !.id = context.next_id])

paths_get(context, back_ref) == HashMap_get(context.paths, back_ref)

types_get(context, back_ref) == HashMap_get(context.types, back_ref)

\* a const lookup that reads the table of types
consts_get_types(context, back_ref) == HashMap_get(context.types, back_ref)

consts_get(context, back_ref) == HashMap_get(context.consts, back_ref)

\* an insertion one past the entry offset
paths_insert_shifted(context, index, res) ==
    [context EXCEPT !.paths = HashMap_insert(@, index + 1, res)]

paths_insert(context, index, res) ==
    [context EXCEPT !.paths = HashMap_insert(@, index, res)]

\* a production that forgets to record its result
types_insert_forgotten(context, index, res) == context

types_insert(context, index, res) ==
    [context EXCEPT !.types = HashMap_insert(@, index, res)]

consts_insert(context, index, res) ==
    [context EXCEPT !.consts = HashMap_insert(@, index, res)]

(***************************************************************************)
(* The grammar                                                             *)
(***************************************************************************)
\* the punycode crate's decoder, kept opaque
punycode_decode(buffer) == Some([punycode |-> buffer])

ReplaceLastUnderscore(name) ==
    IF \E i \in 1..Len(name) : name[i] = "_"
    THEN LET last == CHOOSE i \in 1..Len(name) :
                         /\ name[i] = "_"
                         /\ \A j \in (i + 1)..Len(name) : name[j] # "_"
         IN  [name EXCEPT ![last] = "-"]
    ELSE name

\* the closure of flat_map: the name of `length` bytes, decoded when the `u` was there
identifier_name(t, is_punycode, index) ==
    LET Decode(name) == IF is_punycode
                        THEN punycode_decode(ReplaceLastUnderscore(name))
                        ELSE Some(name)
    IN  IF is_punycode /\ t.ok
        THEN MapOpt([t EXCEPT !.ctx = Emit(@, [ev |-> "punycode", at |-> index])],
                    Decode)
        ELSE MapOpt(t, Decode)

\* take(length) after opt(tag("_")), which returned s
identifier_take(s, length, is_punycode, index) ==
    identifier_name(IF IsSmall(length) THEN take(ToInt(length), s.rest, s.ctx)
                    ELSE Fail(s.ctx),
                    is_punycode, index)

\* opt(tag("_")) after parse_decimal_number, which returned n
identifier_underscore(n, is_punycode, index) ==
    IF n.ok
    THEN identifier_take(Opt(tag(<<"_">>, n.rest, n.ctx), n.rest), n.out, is_punycode,
                         index)
    ELSE n

\* parse_decimal_number after opt(tag("u")), which returned u
identifier_length(u, index) ==
    identifier_underscore(parse_decimal_number(u.rest, u.ctx), u.out # None, index)

parse_undisambiguated_identifier(input, context) ==
    identifier_length(Opt(tag(<<"u">>, input, context), input), input.index)

parse_identifier(input, context) ==
    LET Build(o) == [disambiguator |-> o[1], name |-> o[2]]
    IN  Map(And(opt_u64(parse_disambiguator(input, context), input),
                "parse_undisambiguated_identifier"), Build)

parse_impl_path(input, context) ==
    LET Build(o) == [disambiguator |-> o[1], path |-> o[2]]
    IN  Map(And(opt_u64(parse_disambiguator(input, context), input), "parse_path"), Build)

path_crate_root(input, context) ==
    LET Build(o) == [tag |-> "CrateRoot", identifier |-> o]
    IN  Map(Preceded(tag(<<"C">>, input, context), "parse_identifier"), Build)

path_inherent_impl(input, context) ==
    LET Build(o) == [tag |-> "InherentImpl", impl_path |-> o[1], type_ |-> o[2]]
    IN  Map(And(Preceded(tag(<<"M">>, input, context), "parse_impl_path"), "parse_type"), Build)

path_trait_impl(input, context) ==
    LET Build(o) == [tag |-> "TraitImpl", impl_path |-> o[1][1], type_ |-> o[1][2],
                     trait_ |-> o[2]]
    IN  Map(And(And(Preceded(tag(<<"X">>, input, context), "parse_impl_path"), "parse_type"),
                "parse_path"), Build)

path_trait_definition(input, context) ==
    LET Build(o) == [tag |-> "TraitDefinition", type_ |-> o[1], trait_ |-> o[2]]
    IN  Map(And(Preceded(tag(<<"Y">>, input, context), "parse_type"), "parse_path"), Build)

take_1(input, context) == take(1, input, context)

path_nested(input, context) ==
    LET Build(o) == [tag |-> "Nested", namespace |-> o[1][1][1], path |-> o[1][2],
                     name |-> o[2]]
    IN  Map(And(And(Preceded(tag(<<"N">>, input, context), "take_1"), "parse_path"),
                "parse_identifier"), Build)

many0_generic_arg(input, context) == many0("parse_generic_arg", input, context)

\* generic arguments whose closing `E` may be missing
path_generic_unclosed(input, context) ==
    LET Build(o) == [tag |-> "Generic", path |-> o[1], generic_args |-> o[2]]
        r == And(Preceded(tag(<<"I">>, input, context), "parse_path"), "many0_generic_arg")
        e == IF r.ok THEN tag(<<"E">>, r.rest, r.ctx) ELSE r
    IN  Map(IF r.ok /\ e.ok THEN Ok(r.out, e.rest, e.ctx) ELSE r, Build)

path_generic(input, context) ==
    LET Build(o) == [tag |-> "Generic", path |-> o[1], generic_args |-> o[2]]
    IN  Map(TerminatedTag(And(Preceded(tag(<<"I">>, input, context), "parse_path"),
                              "many0_generic_arg"), <<"E">>), Build)

\* a path back reference whose miss yields a default node instead of failing
\* (unwrap_or_default after the lookup)
path_back_ref_lenient(input, context) ==
    LET b == parse_back_ref(input, context)
        r == IF b.ok THEN Resolve(b, "path", input, paths_get(b.ctx, b.out)) ELSE b
    IN  IF b.ok /\ ~r.ok
        THEN Ok([id |-> 0, node |-> [tag |-> "CrateRoot", identifier |-> <<>>]],
                b.rest, r.ctx)
        ELSE r

path_back_ref(input, context) ==
    LET b == parse_back_ref(input, context)
    IN  IF ~b.ok THEN b ELSE Resolve(b, "path", input, paths_get(b.ctx, b.out))

paths_inspect(r, index) ==
    Leave(IF r.ok
          THEN [r EXCEPT !.ctx = Returned(r, "path", index,
                                          paths_insert(r.ctx, index, r.out))]
          ELSE r, "path", index)

\* alt((...)).map(Rc::new).or(back reference).inspect_with_context(insert); the
\* alternatives of alt run in order, each with the context the ones before it left
parse_path(input, context) ==
    LET index == input.index
        b1 == Call("path_crate_root", input, Enter(context, "path", index))
        b2 == Call("path_inherent_impl", input, b1.ctx)
        b3 == Call("path_trait_impl", input, b2.ctx)
        b4 == Call("path_trait_definition", input, b3.ctx)
        b5 == Call("path_nested", input, b4.ctx)
        b6 == Call("path_generic", input, b5.ctx)
        new == IF b1.ok THEN b1 ELSE IF b2.ok THEN b2 ELSE IF b3.ok THEN b3
               ELSE IF b4.ok THEN b4 ELSE IF b5.ok THEN b5 ELSE b6
    IN  IF new.ok THEN paths_inspect(RcNew(new), index)
        ELSE paths_inspect(Call("path_back_ref", input, new.ctx), index)

generic_arg_type(input, context) ==
    LET Build(o) == [tag |-> "Type", type_ |-> o]
    IN  Map(Call("parse_type", input, context), Build)

generic_arg_const(input, context) ==
    LET Build(o) == [tag |-> "Const", const |-> o]
    IN  Map(Preceded(tag(<<"K">>, input, context), "parse_const"), Build)

parse_generic_arg(input, context) ==
    LET Build(o) == [tag |-> "Lifetime", lifetime |-> o]
    IN  Or(Or(Map(parse_lifetime(input, context), Build), "generic_arg_type", input),
           "generic_arg_const", input)

BasicTypes ==
    [a |-> "I8", b |-> "Bool", c |-> "Char", d |-> "F64", e |-> "Str", f |-> "F32",
     h |-> "U8", i |-> "Isize", j |-> "Usize", l |-> "I32", m |-> "U32", n |-> "I128",
     o |-> "U128", s |-> "I16", t |-> "U16", u |-> "Unit", v |-> "Ellipsis",
     x |-> "I64", y |-> "U64", z |-> "Never", p |-> "Placeholder"]

parse_basic_type(input, context) ==
    LET Match(s) == IF s[1] \in DOMAIN BasicTypes THEN Some(BasicTypes[s[1]]) ELSE None
    IN  MapOpt(take(1, input, context), Match)

type_basic(input, context) ==
    LET Build(o) == [tag |-> "Basic", basic |-> o]
    IN  Map(parse_basic_type(input, context), Build)

type_named(input, context) ==
    LET Build(o) == [tag |-> "Named", path |-> o]
    IN  Map(Call("parse_path", input, context), Build)

type_array(input, context) ==
    LET Build(o) == [tag |-> "Array", type_ |-> o[1], length |-> o[2]]
    IN  Map(And(Preceded(tag(<<"A">>, input, context), "parse_type"), "parse_const"), Build)

type_slice(input, context) ==
    LET Build(o) == [tag |-> "Slice", type_ |-> o]
    IN  Map(Preceded(tag(<<"S">>, input, context), "parse_type"), Build)

many0_type(input, context) == many0("parse_type", input, context)

type_tuple(input, context) ==
    LET Build(o) == [tag |-> "Tuple", types |-> o]
    IN  Map(TerminatedTag(Preceded(tag(<<"T">>, input, context), "many0_type"), <<"E">>),
            Build)

\* opt(parse_lifetime).map(Option::unwrap_or_default)
opt_lifetime(input, context) ==
    LET o == Opt(parse_lifetime(input, context), input)
        stored == IF o.out = None THEN Zero(4) ELSE o.out[1]
    IN  Ok(stored, o.rest,
           Emit(o.ctx, [ev |-> "opt_lifetime", at |-> input.index, num |-> o.out,
                        stored |-> stored]))

type_ref(input, context) ==
    LET Build(o) == [tag |-> "Ref", lifetime |-> o[1], type_ |-> o[2]]
    IN  Map(And(Preceded(tag(<<"R">>, input, context), "opt_lifetime"), "parse_type"), Build)

type_ref_mut(input, context) ==
    LET Build(o) == [tag |-> "RefMut", lifetime |-> o[1], type_ |-> o[2]]
    IN  Map(And(Preceded(tag(<<"Q">>, input, context), "opt_lifetime"), "parse_type"), Build)

type_ptr_const(input, context) ==
    LET Build(o) == [tag |-> "PtrConst", type_ |-> o]
    IN  Map(Preceded(tag(<<"P">>, input, context), "parse_type"), Build)

type_ptr_mut(input, context) ==
    LET Build(o) == [tag |-> "PtrMut", type_ |-> o]
    IN  Map(Preceded(tag(<<"O">>, input, context), "parse_type"), Build)

abi_named(input, context) ==
    LET Named(o) == [tag |-> "Named", name |-> o]
    IN  Map(parse_undisambiguated_identifier(input, context), Named)

parse_abi(input, context) ==
    LET C(o) == [tag |-> "C"]
    IN  Or(Map(tag(<<"C">>, input, context), C), "abi_named", input)

opt_unsafe(input, context) ==
    LET IsSome(o) == o # None
    IN  Map(Opt(tag(<<"U">>, input, context), input), IsSome)

opt_abi(input, context) ==
    Opt(Preceded(tag(<<"K">>, input, context), "parse_abi"), input)

many0_type_E(input, context) == TerminatedTag(many0("parse_type", input, context), <<"E">>)

parse_fn_sig(input, context) ==
    LET Build(o) == [bound_lifetimes |-> o[1][1][1][1], is_unsafe |-> o[1][1][1][2],
                     abi |-> o[1][1][2], argument_types |-> o[1][2],
                     return_type |-> o[2]]
    IN  Map(And(And(And(And(opt_u64(parse_binder(input, context), input), "opt_unsafe"),
                        "opt_abi"),
                    "many0_type_E"),
                "parse_type"), Build)

type_fn(input, context) ==
    LET Build(o) == [tag |-> "Fn", fn_sig |-> o]
    IN  Map(Preceded(tag(<<"F">>, input, context), "parse_fn_sig"), Build)

parse_dyn_trait_assoc_binding(input, context) ==
    LET Build(o) == [name |-> o[1], type_ |-> o[2]]
    IN  Map(And(Preceded(tag(<<"p">>, input, context), "parse_undisambiguated_identifier"),
                "parse_type"), Build)

many0_dyn_trait_assoc_binding(input, context) ==
    many0("parse_dyn_trait_assoc_binding", input, context)

parse_dyn_trait(input, context) ==
    LET Build(o) == [path |-> o[1], dyn_trait_assoc_bindings |-> o[2]]
    IN  Map(And(Call("parse_path", input, context), "many0_dyn_trait_assoc_binding"),
            Build)

many0_dyn_trait_E(input, context) ==
    TerminatedTag(many0("parse_dyn_trait", input, context), <<"E">>)

parse_dyn_bounds(input, context) ==
    LET Build(o) == [bound_lifetimes |-> o[1], dyn_traits |-> o[2]]
    IN  Map(And(opt_u64(parse_binder(input, context), input), "many0_dyn_trait_E"), Build)

type_dyn_trait(input, context) ==
    LET Build(o) == [tag |-> "DynTrait", dyn_bounds |-> o[1], lifetime |-> o[2]]
    IN  Map(And(Preceded(tag(<<"D">>, input, context), "parse_dyn_bounds"), "parse_lifetime"),
            Build)

type_back_ref(input, context) ==
    LET b == parse_back_ref(input, context)
    IN  IF ~b.ok THEN b ELSE Resolve(b, "type", input, types_get(b.ctx, b.out))

types_inspect(r, index) ==
    Leave(IF r.ok
          THEN [r EXCEPT !.ctx = Returned(r, "type", index,
                                          types_insert(r.ctx, index, r.out))]
          ELSE r, "type", index)

\* alt((...)).map(Rc::new).or(back reference).inspect_with_context(insert); the
\* alternatives of alt run in order, each with the context the ones before it left
parse_type(input, context) ==
    LET index == input.index
        b1 == Call("type_basic", input, Enter(context, "type", index))
        b2 == Call("type_named", input, b1.ctx)
        b3 == Call("type_array", input, b2.ctx)
        b4 == Call("type_slice", input, b3.ctx)
        b5 == Call("type_tuple", input, b4.ctx)
        b6 == Call("type_ref", input, b5.ctx)
        b7 == Call("type_ref_mut", input, b6.ctx)
        b8 == Call("type_ptr_const", input, b7.ctx)
        b9 == Call("type_ptr_mut", input, b8.ctx)
        b10 == Call("type_fn", input, b9.ctx)
        b11 == Call("type_dyn_trait", input, b10.ctx)
        new == IF b1.ok THEN b1 ELSE IF b2.ok THEN b2 ELSE IF b3.ok THEN b3
               ELSE IF b4.ok THEN b4 ELSE IF b5.ok THEN b5 ELSE IF b6.ok THEN b6
               ELSE IF b7.ok THEN b7 ELSE IF b8.ok THEN b8 ELSE IF b9.ok THEN b9
               ELSE IF b10.ok THEN b10 ELSE b11
    IN  IF new.ok THEN types_inspect(RcNew(new), index)
        ELSE types_inspect(Call("type_back_ref", input, new.ctx), index)

\* parse_const_int::<T>: T has `bits` bits and is signed or not.  The value is its
\* sign and its magnitude.
parse_const_int(bits, signed, input, context) ==
    LET n == Opt(tag(<<"n">>, input, context), input)
        Convert(o) ==
            LET is_negative == o[1]
                base == from_str_radix(o[2], 16, 8, IF signed THEN bits - 1 ELSE bits)
            IN  IF base = <<>> THEN None
                ELSE IF is_negative = None THEN Some([negative |-> FALSE, magnitude |-> base])
                ELSE IF signed
                     THEN Some([negative |-> base # Zero(8), magnitude |-> base])
                ELSE IF base = Zero(8)
                     THEN Some([negative |-> FALSE, magnitude |-> base])
                ELSE None
    IN  TerminatedTag(MapOpt(And(n, "lower_hex_digit0"), Convert), <<"_">>)

\* the twelve integer branches of parse_const, in the order of the source
ConstIntTypes ==
    << <<"a", "I8", 8, TRUE>>, <<"h", "U8", 8, FALSE>>, <<"i", "Isize", 64, TRUE>>,
       <<"j", "Usize", 64, FALSE>>, <<"l", "I32", 32, TRUE>>, <<"m", "U32", 32, FALSE>>,
       <<"n", "I128", 128, TRUE>>, <<"o", "U128", 128, FALSE>>, <<"s", "I16", 16, TRUE>>,
       <<"t", "U16", 16, FALSE>>, <<"x", "I64", 64, TRUE>>, <<"y", "U64", 64, FALSE>> >>

RECURSIVE const_int_from(_, _, _)
const_int_from(k, input, context) ==
    IF k > Len(ConstIntTypes) THEN Fail(context)
    ELSE LET T == ConstIntTypes[k]
             Build(o) == [tag |-> T[2], value |-> o]
             t == tag(<<T[1]>>, input, context)
             r == IF t.ok THEN Map(parse_const_int(T[3], T[4], t.rest, t.ctx), Build)
                  ELSE t
         IN  IF r.ok THEN r ELSE const_int_from(k + 1, input, r.ctx)

const_int(input, context) == const_int_from(1, input, context)

const_bool(input, context) ==
    LET t == tag(<<"b">>, input, context)
        Match(o) == IF o.magnitude = Zero(8) THEN Some([tag |-> "Bool", value |-> FALSE])
                    ELSE IF o.magnitude = FromInt(1, 8)
                         THEN Some([tag |-> "Bool", value |-> TRUE])
                    ELSE None
    IN  IF t.ok THEN MapOpt(parse_const_int(8, FALSE, t.rest, t.ctx), Match) ELSE t

\* u32 -> char: not a surrogate, and below 0x110000
char_try_from(o) ==
    LET lo == o.magnitude[1]
        hi == o.magnitude[2]
    IN  IF hi < 17 /\ ~(hi = 0 /\ lo >= 55296 /\ lo <= 57343)
        THEN Some([tag |-> "Char", value |-> o.magnitude])
        ELSE None

const_char(input, context) ==
    LET t == tag(<<"c">>, input, context)
    IN  IF t.ok THEN MapOpt(parse_const_int(32, FALSE, t.rest, t.ctx), char_try_from)
        ELSE t

parse_const_str(input, context) ==
    LET Even(str) == IF Len(str) % 2 = 0 THEN Some(str) ELSE None
    IN  MapOpt(TerminatedTag(lower_hex_digit0(input, context), <<"_">>), Even)

const_str(input, context) ==
    LET Build(o) == [tag |-> "Str", str |-> o]
    IN  Map(Preceded(tag(<<"e">>, input, context), "parse_const_str"), Build)

const_ref(input, context) ==
    LET Build(o) == [tag |-> "Ref", const |-> o]
    IN  Map(Preceded(tag(<<"R">>, input, context), "parse_const"), Build)

const_ref_mut(input, context) ==
    LET Build(o) == [tag |-> "RefMut", const |-> o]
    IN  Map(Preceded(tag(<<"Q">>, input, context), "parse_const"), Build)

many0_const(input, context) == many0("parse_const", input, context)

const_array(input, context) ==
    LET Build(o) == [tag |-> "Array", consts |-> o]
    IN  Map(TerminatedTag(Preceded(tag(<<"A">>, input, context), "many0_const"), <<"E">>),
            Build)

const_tuple(input, context) ==
    LET Build(o) == [tag |-> "Tuple", consts |-> o]
    IN  Map(TerminatedTag(Preceded(tag(<<"T">>, input, context), "many0_const"), <<"E">>),
            Build)

many0_field(input, context) == many0("field", input, context)

const_fields_tuple(input, context) ==
    LET Tuple(o) == [tag |-> "Tuple", consts |-> o]
    IN  Map(TerminatedTag(Preceded(tag(<<"T">>, input, context), "many0_const"), <<"E">>),
            Tuple)

const_fields_struct(input, context) ==
    LET Struct(o) == [tag |-> "Struct", fields |-> o]
    IN  Map(TerminatedTag(Preceded(tag(<<"S">>, input, context), "many0_field"), <<"E">>),
            Struct)

parse_const_fields(input, context) ==
    LET Unit(o) == [tag |-> "Unit"]
    IN  Or(Or(Map(tag(<<"U">>, input, context), Unit), "const_fields_tuple", input),
           "const_fields_struct", input)

const_named_struct(input, context) ==
    LET Build(o) == [tag |-> "NamedStruct", path |-> o[1], fields |-> o[2]]
    IN  Map(And(Preceded(tag(<<"V">>, input, context), "parse_path"), "parse_const_fields"),
            Build)

const_placeholder(input, context) ==
    LET Build(o) == [tag |-> "Placeholder"]
    IN  Map(tag(<<"p">>, input, context), Build)

const_back_ref(input, context) ==
    LET b == parse_back_ref(input, context)
    IN  IF ~b.ok THEN b ELSE Resolve(b, "const", input, consts_get(b.ctx, b.out))

consts_inspect(r, index) ==
    Leave(IF r.ok
          THEN [r EXCEPT !.ctx = Returned(r, "const", index,
                                          consts_insert(r.ctx, index, r.out))]
          ELSE r, "const", index)

\* alt((...)).map(Rc::new).or(back reference).inspect_with_context(insert); the
\* alternatives of alt run in order, each with the context the ones before it left
parse_const(input, context) ==
    LET index == input.index
        b1 == Call("const_int", input, Enter(context, "const", index))
        b2 == Call("const_bool", input, b1.ctx)
        b3 == Call("const_char", input, b2.ctx)
        b4 == Call("const_str", input, b3.ctx)
        b5 == Call("const_ref", input, b4.ctx)
        b6 == Call("const_ref_mut", input, b5.ctx)
        b7 == Call("const_array", input, b6.ctx)
        b8 == Call("const_tuple", input, b7.ctx)
        b9 == Call("const_named_struct", input, b8.ctx)
        b10 == Call("const_placeholder", input, b9.ctx)
        new == IF b1.ok THEN b1 ELSE IF b2.ok THEN b2 ELSE IF b3.ok THEN b3
               ELSE IF b4.ok THEN b4 ELSE IF b5.ok THEN b5 ELSE IF b6.ok THEN b6
               ELSE IF b7.ok THEN b7 ELSE IF b8.ok THEN b8 ELSE IF b9.ok THEN b9
               ELSE b10
    IN  IF new.ok THEN consts_inspect(RcNew(new), index)
        ELSE consts_inspect(Call("const_back_ref", input, new.ctx), index)

field(input, context) == And(parse_identifier(input, context), "parse_const")

\* many0(p), p named by kind
many0(kind, input, context) ==
    LET r == Call(kind, input, context)
    IN  IF ~r.ok THEN Ok(<<>>, input, r.ctx)
        ELSE LET more == many0(kind, r.rest, r.ctx)
             IN  Ok(<<r.out>> \o more.out, more.rest, more.ctx)

\* an optional path that, when the path fails, puts the memo tables back as they
\* were before the attempt
opt_parse_path_restoring(input, context) ==
    LET o == Opt(Call("parse_path", input, context), input)
    IN  IF o.out = None
        THEN [o EXCEPT !.ctx = [@ EXCEPT !.paths = context.paths,
                                         !.types = context.types,
                                         !.consts = context.consts]]
        ELSE o

opt_parse_path(input, context) == Opt(Call("parse_path", input, context), input)

opt_parse_decimal_number(input, context) ==
    Opt(parse_decimal_number(input, context), input)

parse_symbol_inner(input, context) ==
    LET Build(o) == [version |-> o[1][1], path |-> o[1][2], instantiating_crate |-> o[2]]
    IN  Map(And(And(opt_parse_decimal_number(input, context), "parse_path"), "opt_parse_path"),
            Build)

Call(name, input, context) ==
    CASE name = "parse_path" -> parse_path(input, context)
      [] name = "parse_type" -> parse_type(input, context)
      [] name = "parse_const" -> parse_const(input, context)
      [] name = "parse_identifier" -> parse_identifier(input, context)
      [] name = "parse_impl_path" -> parse_impl_path(input, context)
      [] name = "parse_undisambiguated_identifier" ->
             parse_undisambiguated_identifier(input, context)
      [] name = "parse_generic_arg" -> parse_generic_arg(input, context)
      [] name = "generic_arg_type" -> generic_arg_type(input, context)
      [] name = "generic_arg_const" -> generic_arg_const(input, context)
      [] name = "parse_lifetime" -> parse_lifetime(input, context)
      [] name = "opt_lifetime" -> opt_lifetime(input, context)
      [] name = "parse_fn_sig" -> parse_fn_sig(input, context)
      [] name = "opt_unsafe" -> opt_unsafe(input, context)
      [] name = "opt_abi" -> opt_abi(input, context)
      [] name = "parse_abi" -> parse_abi(input, context)
      [] name = "abi_named" -> abi_named(input, context)
      [] name = "parse_dyn_bounds" -> parse_dyn_bounds(input, context)
      [] name = "parse_dyn_trait" -> parse_dyn_trait(input, context)
      [] name = "parse_dyn_trait_assoc_binding" ->
             parse_dyn_trait_assoc_binding(input, context)
      [] name = "parse_const_fields" -> parse_const_fields(input, context)
      [] name = "const_fields_tuple" -> const_fields_tuple(input, context)
      [] name = "const_fields_struct" -> const_fields_struct(input, context)
      [] name = "parse_const_str" -> parse_const_str(input, context)
      [] name = "parse_base62_number" -> parse_base62_number(input, context)
      [] name = "field" -> field(input, context)
      [] name = "many0_generic_arg" -> many0_generic_arg(input, context)
      [] name = "many0_type" -> many0_type(input, context)
      [] name = "many0_type_E" -> many0_type_E(input, context)
      [] name = "many0_const" -> many0_const(input, context)
      [] name = "many0_field" -> many0_field(input, context)
      [] name = "many0_dyn_trait_E" -> many0_dyn_trait_E(input, context)
      [] name = "many0_dyn_trait_assoc_binding" ->
             many0_dyn_trait_assoc_binding(input, context)
      [] name = "opt_parse_path" -> opt_parse_path(input, context)
      [] name = "lower_hex_digit0" -> lower_hex_digit0(input, context)
      [] name = "digit1" -> digit1(input, context)
      [] name = "take_1" -> take_1(input, context)
      [] name = "path_crate_root" -> path_crate_root(input, context)
      [] name = "path_inherent_impl" -> path_inherent_impl(input, context)
      [] name = "path_trait_impl" -> path_trait_impl(input, context)
      [] name = "path_trait_definition" -> path_trait_definition(input, context)
      [] name = "path_nested" -> path_nested(input, context)
      [] name = "path_generic" -> path_generic(input, context)
      [] name = "path_back_ref" -> path_back_ref(input, context)
      [] name = "type_basic" -> type_basic(input, context)
      [] name = "type_named" -> type_named(input, context)
      [] name = "type_array" -> type_array(input, context)
      [] name = "type_slice" -> type_slice(input, context)
      [] name = "type_tuple" -> type_tuple(input, context)
      [] name = "type_ref" -> type_ref(input, context)
      [] name = "type_ref_mut" -> type_ref_mut(input, context)
      [] name = "type_ptr_const" -> type_ptr_const(input, context)
      [] name = "type_ptr_mut" -> type_ptr_mut(input, context)
      [] name = "type_fn" -> type_fn(input, context)
      [] name = "type_dyn_trait" -> type_dyn_trait(input, context)
      [] name = "type_back_ref" -> type_back_ref(input, context)
      [] name = "const_int" -> const_int(input, context)
      [] name = "const_bool" -> const_bool(input, context)
      [] name = "const_char" -> const_char(input, context)
      [] name = "const_str" -> const_str(input, context)
      [] name = "const_ref" -> const_ref(input, context)
      [] name = "const_ref_mut" -> const_ref_mut(input, context)
      [] name = "const_array" -> const_array(input, context)
      [] name = "const_tuple" -> const_tuple(input, context)
      [] name = "const_named_struct" -> const_named_struct(input, context)
      [] name = "const_placeholder" -> const_placeholder(input, context)
      [] name = "const_back_ref" -> const_back_ref(input, context)
      [] name = "opt_parse_decimal_number" -> opt_parse_decimal_number(input, context)
      [] name = "parse_symbol_inner" -> parse_symbol_inner(input, context)

\* Ok((symbol, suffix.data)) or Err(()); the cursor and the context are kept for
\* the properties
parse_symbol(input) ==
    Call("parse_symbol_inner", IndexedStr_new(input), Context_default)

(***************************************************************************)
(* The state machine: one call of parse_symbol, on any of the inputs.       *)
(*                                                                         *)
(* The inputs are every string of at most MaxLen characters of             *)
(* CoreAlphabet, and around each seed (a mangled name that exercises some  *)
(* productions): its prefixes, the seed with one character replaced by one *)
(* of EditAlphabet, and the seed followed by at most MaxTail characters of *)
(* TailAlphabet.  A call that reaches the punycode decoder ends in         *)
(* "external": its outcome is the decoder's, which is not modelled.        *)
(***************************************************************************)
MaxLen == 5

MaxTail == 2

CoreAlphabet == {"C", "N", "M", "I", "E", "B", "_", "0", "1", "a"}

EditAlphabet == {"0", "1", "2", "_", "B", "C", "E", "K", "L", "M", "T", "a", "s"}

TailAlphabet == {"B", "C", "_", "0", "1", "a", "."}

Chars(str) == [i \in 1..Len(str) |-> SubSeq(str, i, i)]

Seeds ==
    {Chars("NvNtCs6GSVXm7oiwY_5regex4utf811decode_utf8.llvm.1119170478327948870"),
     Chars("C5regex"),
     Chars("INvNtC3std3vec8from_elemhE"),
     Chars("1C5regex"),
     Chars("NvC1a1fB4_"),
     Chars("NvC1a1fB1_"),
     Chars("Ms_Cs0_1aRL0_FG_ERC1bCslYGhA16ahye_1a"),
     Chars("CslYGhA16ahyd_1a"),
     Chars("MC1aTaB4_B4_E"),
     Chars("XC1aB0_B0_"),
     Chars("IC1aKj1_KB4_E"),
     Chars("YaB0_"),
     Chars("IC0aKB2_E"),
     Chars("MC1aB0_"),
     Chars("IC0Kj1_B3_E"),
     Chars("MC0TC0B3_B5_E"),
     Chars("MC0DG_C1ap1baEL_"),
     Chars("MC0FUKCaEa"),
     Chars("MC0FG0_K1caB2_EB2_"),
     Chars("IC0Kb1_Kc61_Ke6162_Kan1_E"),
     Chars("IC0KRAh0_pEKVC0S1fpEKQTEKVB0_UE"),
     Chars("IC0L_L0_aE"),
     Chars("MC0Aaj3_"),
     Chars("MC0SPOQL0_a"),
     Chars("NvC01a1b"),
     Chars("NvC1a0_C0_"),
     Chars("01C0"),
     Chars("12C0C0"),
     Chars("NvINtC1a1bB3_E1cB2_"),
     Chars("C0MB5_a"),
     Chars("MC0TRaC0B3_B3_B5_B5_E"),
     Chars("MC0B0_MC1aTB6_")}

Prefixes(s) == {SubSeq(s, 1, n) : n \in 0..Len(s)}

Substitutions(s) == {[s EXCEPT ![i] = c] : i \in 1..Len(s), c \in EditAlphabet}

Tails == UNION {[1..n -> TailAlphabet] : n \in 0..MaxTail}

Around(s) == Prefixes(s) \cup Substitutions(s) \cup {s \o t : t \in Tails}

Inputs == UNION {[1..n -> CoreAlphabet] : n \in 0..MaxLen} \cup UNION {Around(s) : s \in Seeds}

Init ==
    /\ mangled = <<>>
    /\ pc = "idle"
    /\ result = [ok |-> FALSE]
    /\ final = Context_default

\* parse_symbol is called with an input
Start ==
    /\ pc = "idle"
    /\ \E input \in Inputs : mangled' = input
    /\ pc' = "ready"
    /\ UNCHANGED <<result, final>>

\* what the caller holds once parse_symbol has returned r
Returns(r) ==
    /\ result' = IF r.ok
                 THEN [ok |-> TRUE, symbol |-> r.out, suffix |-> r.rest.data,
                       cursor |-> r.rest]
                 ELSE [ok |-> FALSE]
    /\ final' = r.ctx
    /\ pc' = IF \E i \in 1..Len(r.ctx.log) : r.ctx.log[i].ev = "punycode"
             THEN "external"
             ELSE "done"

Parse ==
    /\ pc = "ready"
    /\ Returns(parse_symbol(mangled))
    /\ UNCHANGED mangled

Next == Start \/ Parse

Spec == Init /\ [][Next]_vars

(***************************************************************************)
(* What a finished call shows                                              *)
(***************************************************************************)
Done == pc = "done"

Log == final.log

Events(ev) == {i \in 1..Len(Log) : Log[i].ev = ev}

\* lookups of back references in a memo table, and those that found an entry
Lookups == Events("ref")

Hits == {i \in Lookups : Log[i].hit}

Misses == {i \in Lookups : ~Log[i].hit}

\* returns of parse_path, parse_type and parse_const
Finished == Events("ret")

\* the character of the input at an offset
At(p) == IF p + 1 \in 1..Len(mangled) THEN mangled[p + 1] ELSE ""

\* returns of a production that was entered at a `B`: it resolved a back reference
Resolved == {j \in Finished : At(Log[j].at) = "B"}

\* the offsets the back reference at p decodes to (one, when it was looked up)
DecodedAt(p) == {Log[i].k : i \in {l \in Lookups : Log[l].at = p}}

\* returns, before event i, of the production of category cat entered at offset k
Recorded(cat, k, i) ==
    {o \in Finished : o < i /\ Log[o].cat = cat /\ Log[o].at = k}

(***************************************************************************)
(* C1: whenever parse_symbol succeeds, the suffix it returns is a tail of   *)
(* the input, and the bytes consumed together with the suffix make up the  *)
(* input: the final cursor's index is the input's length minus the         *)
(* suffix's length.                                                        *)
(***************************************************************************)
C1_SuffixIsTail ==
    (Done /\ result.ok) =>
        /\ result.cursor.index + Len(result.suffix) = Len(mangled)
        /\ result.suffix = SubSeq(mangled, result.cursor.index + 1, Len(mangled))
        /\ result.cursor.data = result.suffix

\* the example of the crate documentation: 42 bytes consumed, the suffix returned
C1_Witness ==
    /\ Done /\ result.ok
    /\ mangled = Chars("NvNtCs6GSVXm7oiwY_5regex4utf811decode_utf8.llvm.1119170478327948870")
    /\ result.suffix = Chars(".llvm.1119170478327948870")
    /\ result.cursor.index = 42

(***************************************************************************)
(* C2 as written: in a successful parse, the node a production returns     *)
(* when it resolves a back reference to offset k is the very node (the     *)
(* same Rc) that the production of the same category returned at offset k. *)
(***************************************************************************)
C2_Original ==
    (Done /\ result.ok) =>
        \A j \in Resolved : \A k \in DecodedAt(Log[j].at) :
            /\ Recorded(Log[j].cat, k, j) # {}
            /\ \A o \in Recorded(Log[j].cat, k, j) : Log[o].id = Log[j].id

(***************************************************************************)
(* C2, amended: every hit in a memo table returns the very node that the   *)
(* production of that table's category returned at offset k.  A back       *)
(* reference in path or const position returns that node.  One in type     *)
(* position returns the node of the type table only when the path table    *)
(* has no entry for k; when it has one, parse_path resolves the back       *)
(* reference and the type is a new Named node around the shared path.      *)
(***************************************************************************)
C2_SharedNodes ==
    Done =>
        /\ \A i \in Hits :
               /\ Recorded(Log[i].cat, Log[i].k, i) # {}
               /\ \A o \in Recorded(Log[i].cat, Log[i].k, i) : Log[o].id = Log[i].id
        /\ \A j \in Resolved :
               LET hits == {i \in Hits : i < j /\ Log[i].at = Log[j].at}
                   path_hits == {i \in hits : Log[i].cat = "path"}
                   own_hits == {i \in hits : Log[i].cat = Log[j].cat}
               IN  IF Log[j].cat = "type" /\ path_hits # {}
                   THEN /\ \A i \in path_hits : Log[j].wraps = Log[i].id
                        /\ \A o \in Finished : o < j => Log[o].id # Log[j].id
                   ELSE /\ own_hits # {}
                        /\ \A i \in own_hits : Log[i].id = Log[j].id

\* two type back references to the Ref type at offset 4 share its node; two to the
\* named type at offset 6 are two new Named nodes around the one shared path
C2_Witness ==
    /\ Done /\ result.ok
    /\ mangled = Chars("MC0TRaC0B3_B3_B5_B5_E")
    /\ \E i, j \in Hits : i # j /\ Log[i].cat = "type" /\ Log[j].cat = "type"
                          /\ Log[i].k = 4 /\ Log[j].k = 4 /\ Log[i].id = Log[j].id
    /\ \E i, j \in Resolved : /\ i # j /\ Log[i].cat = "type" /\ Log[j].cat = "type"
                              /\ Log[i].wraps # 0 /\ Log[i].wraps = Log[j].wraps
                              /\ Log[i].id # Log[j].id

(***************************************************************************)
(* C3 as written: when parse_path, parse_type or parse_const succeeds at   *)
(* offset k, its table maps k to the node returned, and every later back   *)
(* reference in a position of the same category that decodes to k resolves *)
(* to that node.                                                           *)
(***************************************************************************)
C3_Original ==
    Done =>
        \A j \in Finished :
            /\ Log[j].stored = Log[j].id
            /\ \A r \in Resolved :
                   (r > j /\ Log[r].cat = Log[j].cat /\ Log[j].at \in DecodedAt(Log[r].at))
                       => Log[r].id = Log[j].id

(***************************************************************************)
(* C3, amended: when parse_path, parse_type or parse_const succeeds at     *)
(* offset k, its table maps k to the node returned, be it newly built or   *)
(* taken from a back reference, and every later lookup of k in that table  *)
(* hits and returns that node.  (A `B` in type position is looked up in    *)
(* the path table first, so the type table is consulted only for offsets   *)
(* without a path entry.)                                                  *)
(***************************************************************************)
C3_InsertedOnReturn ==
    Done =>
        \A j \in Finished :
            /\ Log[j].stored = Log[j].id
            /\ \A i \in Lookups :
                   (i > j /\ Log[i].cat = Log[j].cat /\ Log[i].k = Log[j].at)
                       => Log[i].hit /\ Log[i].id = Log[j].id

\* the path at offset 6 is a back reference to the crate root at offset 4; it is
\* recorded at 6, and the back reference to 6 that follows resolves to the same node
C3_Witness ==
    /\ Done /\ result.ok
    /\ mangled = Chars("MC0TC0B3_B5_E")
    /\ \E j \in Resolved, n \in Finished, i \in Hits :
           /\ Log[n].cat = "path" /\ Log[n].at = 4 /\ Log[n].stored = Log[n].id
           /\ Log[j].cat = "path" /\ Log[j].at = 6 /\ Log[j].id = Log[n].id
           /\ Log[j].stored = Log[j].id
           /\ i > j /\ Log[i].cat = "path" /\ Log[i].k = 6 /\ Log[i].id = Log[n].id

(***************************************************************************)
(* C4 as written: when a back reference is read whose offset has no entry  *)
(* in the table it is looked up in, parse_symbol fails.                    *)
(***************************************************************************)
C4_Original == (Done /\ Misses # {}) => ~result.ok

(***************************************************************************)
(* C4, amended: a miss fails the alternative it was tried in, and          *)
(* parse_symbol still succeeds in two cases only: the miss is a miss of    *)
(* the path table in type position and the type table then has the         *)
(* offset; or the miss lies in the optional instantiating-crate path,      *)
(* which is then absent, the text from there on being returned as the      *)
(* suffix.                                                                 *)
(***************************************************************************)
C4_MissFails ==
    (Done /\ result.ok) =>
        \A f \in Misses :
            \/ /\ Log[f].cat = "path"
               /\ \E h \in Hits : /\ h > f /\ Log[h].cat = "type"
                                  /\ Log[h].at = Log[f].at /\ Log[h].k = Log[f].k
            \/ /\ Log[f].at >= result.cursor.index
               /\ result.symbol.instantiating_crate = None

\* a miss in the instantiating-crate position, inside an impl path
C4_Witness ==
    /\ Done /\ result.ok
    /\ mangled = Chars("C0MB5_a")
    /\ result.suffix = Chars("MB5_a")
    /\ \E f \in Misses : Log[f].cat = "path" /\ Log[f].at = 3 /\ Log[f].k = 6

\* the return of the root path of a successful parse, and where that path lies
RootReturn ==
    CHOOSE j \in Finished :
        /\ Log[j].id = result.symbol.path.id
        /\ \A o \in Finished : Log[o].id = result.symbol.path.id => j <= o

RootStart == Log[RootReturn].at

RootEnd == Log[RootReturn].end

Truncated(n) == parse_symbol(SubSeq(mangled, 1, n))

(***************************************************************************)
(* C5 as written: when parse_symbol succeeds consuming e (the input        *)
(* without the returned suffix), it fails on every strict prefix of e.     *)
(***************************************************************************)
C5_Original ==
    (Done /\ result.ok) =>
        \A n \in 0..(result.cursor.index - 1) : ~Truncated(n).ok

(***************************************************************************)
(* C5, amended: when parse_symbol succeeds, it fails on every strict       *)
(* prefix of the input that ends before the end of the root path (the      *)
(* version and the path), with one exception: a root path that ends in a   *)
(* zero-length identifier written `0_` also parses without that optional   *)
(* `_`.  On a prefix that holds the root path and cuts the instantiating   *)
(* crate, which is optional, it succeeds.                                  *)
(***************************************************************************)
C5_TruncationFails ==
    (Done /\ result.ok) =>
        \A n \in 0..(result.cursor.index - 1) :
            IF n >= RootEnd THEN Truncated(n).ok
            ELSE Truncated(n).ok =>
                     /\ n = RootEnd - 1
                     /\ At(n) = "_"
                     /\ At(n - 1) = "0"
                     /\ \E d \in Events("dec") : Log[d].at = n - 1 /\ Log[d].end = n

\* a name of 26 bytes, all consumed by the root path: each of its 26 strict
\* prefixes fails
C5_Witness ==
    /\ Done /\ result.ok
    /\ mangled = Chars("INvNtC3std3vec8from_elemhE")
    /\ RootEnd = 26 /\ result.cursor.index = 26
    /\ \A n \in 0..25 : ~Truncated(n).ok

Max64 == <<LimbBase - 1, LimbBase - 1, LimbBase - 1, LimbBase - 1>>

(***************************************************************************)
(* C6: a disambiguator (`s`) or a binder count (`G`) read through opt_u64  *)
(* is stored as 0 when absent and as the value of parse_base62_number      *)
(* plus one when present, so `s_` and `G_` store 1, and the parse of the   *)
(* element fails when that sum overflows u64; the optional lifetime of     *)
(* Ref and RefMut is stored as 0 when absent and as the value of           *)
(* parse_base62_number itself when present.                                *)
(***************************************************************************)
C6_OptionalBump ==
    Done =>
        /\ \A e \in Events("opt_u64") :
               /\ At(Log[e].at) \notin {"s", "G"} => Log[e].num = None
               /\ Log[e].num = None => Log[e].stored = Zero(4)
               /\ Log[e].num # None =>
                      /\ At(Log[e].at) \in {"s", "G"}
                      /\ IF Log[e].num[1][1] < LimbBase - 1
                         THEN Log[e].stored = [Log[e].num[1] EXCEPT ![1] = @ + 1]
                         ELSE IF Log[e].num[1] = Max64
                              THEN Log[e].stored = <<>>
                              ELSE IsSmall(Log[e].num[1]) =>
                                       Log[e].stored = FromInt(ToInt(Log[e].num[1]) + 1, 4)
                      /\ At(Log[e].at + 1) = "_" => Log[e].stored = FromInt(1, 4)
               /\ (Log[e].stored = <<>> /\ result.ok) => result.cursor.index <= Log[e].at
        /\ \A e \in Events("opt_lifetime") :
               /\ Log[e].num = None => Log[e].stored = Zero(4)
               /\ Log[e].num # None =>
                      /\ At(Log[e].at) = "L"
                      /\ Log[e].stored = Log[e].num[1]
                      /\ At(Log[e].at + 1) = "_" => Log[e].stored = Zero(4)
        /\ (result.ok /\ At(RootStart) = "C") =>
               \A e \in Events("opt_u64") :
                   Log[e].at = RootStart + 1 =>
                       result.symbol.path.node.identifier.disambiguator = Log[e].stored

\* `s_` stores 1, `s0_` 2, `G_` 1 and an absent disambiguator 0; the lifetime `L0_`
\* stores 1 and an absent one 0; the disambiguator `slYGhA16ahye_`, whose value is
\* u64::MAX, fails
C6_Witness ==
    /\ Done /\ result.ok
    /\ mangled = Chars("Ms_Cs0_1aRL0_FG_ERC1bCslYGhA16ahye_1a")
    /\ result.suffix = Chars("CslYGhA16ahye_1a")
    /\ \E e \in Events("opt_u64") : Log[e].at = 1 /\ Log[e].stored = FromInt(1, 4)
    /\ \E e \in Events("opt_u64") : Log[e].at = 4 /\ Log[e].stored = FromInt(2, 4)
    /\ \E e \in Events("opt_u64") : Log[e].num = None /\ Log[e].stored = Zero(4)
    /\ \E e \in Events("opt_u64") : Log[e].num = Some(Max64) /\ Log[e].stored = <<>>
    /\ \E e \in Events("opt_lifetime") : Log[e].at = 10 /\ Log[e].stored = FromInt(1, 4)
    /\ \E e \in Events("opt_lifetime") : Log[e].num = None /\ Log[e].stored = Zero(4)

DecimalDigits == <<"0", "1", "2", "3", "4", "5", "6", "7", "8", "9">>

IsDecimalDigit(c) == \E v \in 1..10 : DecimalDigits[v] = c

\* the number written in decimal by the characters from offset p up to offset q
RECURSIVE DecimalValue(_, _)
DecimalValue(p, q) ==
    IF q <= p THEN 0
    ELSE 10 * DecimalValue(p, q - 1) + (CHOOSE v \in 1..10 : DecimalDigits[v] = At(q - 1)) - 1

(***************************************************************************)
(* C7 as written: an input with `0` followed by decimal digits where a     *)
(* decimal number is read is rejected: parse_symbol does not succeed by    *)
(* reading the `0` alone and giving the digits to what follows.            *)
(***************************************************************************)
C7_Original ==
    (Done /\ result.ok) =>
        \A d \in Events("dec") :
            (At(Log[d].at) = "0" /\ IsDecimalDigit(At(Log[d].at + 1)))
                => Log[d].end > result.cursor.index

(***************************************************************************)
(* C7, amended: parse_decimal_number reads the single `0`, or else the     *)
(* whole run of decimal digits, which then has no leading zero, as a       *)
(* number of the target width.  At a `0` followed by digits it reads the   *)
(* `0` alone, as the number 0, and the digits are left to what follows:    *)
(* after the version that fails the parse, no path beginning with a digit; *)
(* after the length of an identifier the identifier is empty and the       *)
(* digits begin the next element or the suffix.                            *)
(***************************************************************************)
C7_DecimalNumber ==
    Done =>
        /\ \A d \in Events("dec") :
               IF At(Log[d].at) = "0"
               THEN Log[d].end = Log[d].at + 1 /\ Log[d].value = Zero(4)
               ELSE /\ Log[d].end > Log[d].at
                    /\ \A p \in Log[d].at..(Log[d].end - 1) : IsDecimalDigit(At(p))
                    /\ ~IsDecimalDigit(At(Log[d].end))
                    /\ Log[d].value = FromInt(DecimalValue(Log[d].at, Log[d].end), 4)
        /\ (At(0) = "0" /\ IsDecimalDigit(At(1))) => ~result.ok

\* the crate root's identifier is read as `0`, empty, and `1a` is the name nested in it
C7_Witness ==
    /\ Done /\ result.ok
    /\ mangled = Chars("NvC01a1b")
    /\ result.suffix = Chars("1b")
    /\ \E d \in Events("dec") : Log[d].at = 3 /\ Log[d].end = 4 /\ Log[d].value = Zero(4)
    /\ result.symbol.path.node.path.node.identifier.name = <<>>
    /\ result.symbol.path.node.name.name = Chars("a")

(***************************************************************************)
(* C8 as written: in `NvC1a1fB4_` the trailing `B4_` is consumed as a back *)
(* reference to offset 4, which the path table resolves; it is not left in *)
(* the suffix.                                                             *)
(***************************************************************************)
C8_Original ==
    (Done /\ mangled = Chars("NvC1a1fB4_")) =>
        /\ result.ok
        /\ result.suffix = <<>>
        /\ result.symbol.instantiating_crate # None
        /\ \E i \in Hits : Log[i].cat = "path" /\ Log[i].at = 7 /\ Log[i].k = 4

(***************************************************************************)
(* C8, amended: in `NvC1a1fB4_` the trailing `B4_` decodes to offset 5,    *)
(* where no path was recorded (the path table holds offsets 0 and 2), so   *)
(* the lookup misses, the optional instantiating crate is absent, and the  *)
(* parse succeeds with `B4_` returned as the suffix.  The back reference   *)
(* to the crate root `C1a`, at offset 2, is `B1_`: `NvC1a1fB1_` is         *)
(* consumed whole and its instantiating crate is the node of the crate     *)
(* root.                                                                   *)
(***************************************************************************)
C8_BackRefExample ==
    Done =>
        /\ mangled = Chars("NvC1a1fB4_") =>
               /\ result.ok
               /\ result.suffix = Chars("B4_")
               /\ result.symbol.instantiating_crate = None
               /\ DOMAIN final.paths = {0, 2}
               /\ Lookups # {}
               /\ \A i \in Lookups :
                      Log[i].cat = "path" /\ Log[i].at = 7 /\ Log[i].k = 5 /\ ~Log[i].hit
        /\ mangled = Chars("NvC1a1fB1_") =>
               /\ result.ok
               /\ result.suffix = <<>>
               /\ result.symbol.instantiating_crate = Some(final.paths[2])
               /\ result.symbol.instantiating_crate[1] = result.symbol.path.node.path
               /\ final.paths[2].node.tag = "CrateRoot"
               /\ final.paths[2].node.identifier.name = Chars("a")
               /\ \E i \in Hits : Log[i].cat = "path" /\ Log[i].at = 7 /\ Log[i].k = 2

\* the name of the claim has been parsed: the root path ends at offset 7 and the
\* lookup of offset 5 missed
C8_Witness ==
    /\ Done /\ result.ok
    /\ mangled = Chars("NvC1a1fB4_")
    /\ result.cursor.index = 7
    /\ \E i \in Misses : Log[i].cat = "path" /\ Log[i].at = 7 /\ Log[i].k = 5

(***************************************************************************)
(* C9: when a back reference read at offset p resolves, its target k is    *)
(* less than p, the production recorded at k returned the node before,     *)
(* having ended at or before p, and no production entered at k is still    *)
(* running: a back reference never resolves to an enclosing production.    *)
(***************************************************************************)
C9_ResolvesBackwards ==
    Done =>
        \A i \in Hits :
            /\ Log[i].k < Log[i].at
            /\ \E o \in Recorded(Log[i].cat, Log[i].k, i) :
                   Log[o].end <= Log[i].at /\ Log[o].id = Log[i].id
            /\ \A a \in Log[i].active : a[2] # Log[i].k

\* the trait path of `XC1aB0_B0_` is a back reference, read at offset 7 inside the
\* path entered at 0, to the crate root of offset 1, which ended at offset 4
C9_Witness ==
    /\ Done /\ result.ok
    /\ mangled = Chars("XC1aB0_B0_")
    /\ \E i \in Hits, o \in Finished :
           /\ Log[i].cat = "path" /\ Log[i].at = 7 /\ Log[i].k = 1
           /\ <<"path", 0>> \in Log[i].active
           /\ o < i /\ Log[o].cat = "path" /\ Log[o].at = 1 /\ Log[o].end = 4
           /\ Log[o].id = Log[i].id

(***************************************************************************)
(* C10 as written: a back reference that resolves, in path, type or const  *)
(* position, points to an offset at which a production of the category of  *)
(* its position returned before.                                           *)
(***************************************************************************)
C10_Original ==
    Done =>
        \A j \in Resolved : \A k \in DecodedAt(Log[j].at) :
            Recorded(Log[j].cat, k, j) # {}

(***************************************************************************)
(* C10, amended: a lookup hits exactly when a production of the category   *)
(* of the table returned at that offset before.  A back reference in path  *)
(* or const position therefore resolves only to an offset recorded by      *)
(* parse_path or parse_const, and misses and fails on an offset recorded   *)
(* by other categories only.  A back reference in type position is looked  *)
(* up in the path table and then in the type table: it resolves to an      *)
(* offset recorded by parse_path or by parse_type, and fails otherwise.    *)
(***************************************************************************)
C10_SameCategory ==
    Done =>
        /\ \A i \in Lookups : Log[i].hit <=> Recorded(Log[i].cat, Log[i].k, i) # {}
        /\ \A j \in Resolved : \A k \in DecodedAt(Log[j].at) :
               IF Log[j].cat = "type"
               THEN Recorded("type", k, j) \cup Recorded("path", k, j) # {}
               ELSE Recorded(Log[j].cat, k, j) # {}
        /\ \A i \in Misses : \A j \in Finished :
               ~(j > i /\ Log[j].at = Log[i].at /\ Log[j].cat = Log[i].cat)

\* a const back reference to offset 3, where only a type was recorded: it misses
\* and the parse fails
C10_Witness ==
    /\ Done /\ ~result.ok
    /\ mangled = Chars("IC0aKB2_E")
    /\ \E i \in Misses :
           /\ Log[i].cat = "const" /\ Log[i].at = 5 /\ Log[i].k = 3
           /\ Recorded("type", 3, i) # {}
           /\ Recorded("const", 3, i) = {}

\* failures of parse_path, parse_type and parse_const
Failures == Events("fail")

\* event i (a lookup or a return) happened inside a production that failed later:
\* in a branch the parse gave up
Abandoned(i) ==
    \E f \in Failures : f > i /\ <<Log[f].cat, Log[f].at>> \in Log[i].active

\* every entry ever inserted is in its table when the call ends
NeverUndone ==
    \A o \in Finished :
        /\ Log[o].at \in DOMAIN TableOf(final, Log[o].cat)
        /\ TableOf(final, Log[o].cat)[Log[o].at].id = Log[o].id

\* no key of a table is written twice
WrittenOnce ==
    \A o, p \in Finished : (Log[o].cat = Log[p].cat /\ Log[o].at = Log[p].at) => o = p

(***************************************************************************)
(* C11 as written: insertions are never undone when a branch fails, no key *)
(* is written twice with different nodes, and every entry a successful     *)
(* parse consults was inserted by a production of the consumed prefix,     *)
(* never by one inside a branch that failed later.                         *)
(***************************************************************************)
C11_Original ==
    Done =>
        /\ NeverUndone
        /\ \A o, p \in Finished :
               (Log[o].cat = Log[p].cat /\ Log[o].at = Log[p].at) => Log[o].id = Log[p].id
        /\ result.ok =>
               \A i \in Hits : \A o \in Recorded(Log[i].cat, Log[i].k, i) :
                   ~Abandoned(o) /\ Log[o].end <= result.cursor.index

(***************************************************************************)
(* C11, amended: insertions are never undone when a branch fails, and no   *)
(* key of a memo table is written twice.  When parse_symbol succeeds, the  *)
(* only branch with insertions that failed is the attempt at the optional  *)
(* instantiating crate, which lies in the returned suffix: every back      *)
(* reference of the returned AST resolves to an entry inserted by a        *)
(* production of the consumed prefix that did not fail later.  A back      *)
(* reference read inside that failed attempt is resolved as well, and it   *)
(* may resolve to an entry that the attempt itself inserted.               *)
(***************************************************************************)
C11_AbandonedEntries ==
    Done =>
        /\ NeverUndone
        /\ WrittenOnce
        /\ result.ok =>
               /\ \A o \in Finished : Abandoned(o) => Log[o].at >= result.cursor.index
               /\ \A i \in Hits :
                      IF Abandoned(i) THEN Log[i].at >= result.cursor.index
                      ELSE /\ Log[i].at < result.cursor.index
                           /\ \A o \in Recorded(Log[i].cat, Log[i].k, i) :
                                  ~Abandoned(o) /\ Log[o].end <= result.cursor.index

\* the root path `MC0B0_` holds a back reference to its crate root; the attempt at an
\* instantiating crate, `MC1aTB6_`, records the path at offset 7, resolves a back
\* reference to it and fails for want of an `E`: the entry stays in the table
C11_Witness ==
    /\ Done /\ result.ok
    /\ mangled = Chars("MC0B0_MC1aTB6_")
    /\ result.suffix = Chars("MC1aTB6_")
    /\ \E i \in Hits : Log[i].at = 3 /\ Log[i].k = 1 /\ ~Abandoned(i)
    /\ \E o \in Finished, i \in Hits :
           /\ Log[o].cat = "path" /\ Log[o].at = 7 /\ Abandoned(o)
           /\ i > o /\ Log[i].cat = "path" /\ Log[i].k = 7 /\ Abandoned(i)
           /\ 7 \in DOMAIN final.paths /\ final.paths[7].id = Log[o].id

====
